---- MODULE Spec2Model ----
(***************************************************************************)
(* Model of Forward_Logs.py: a script that reads whole SQL tables, forwards *)
(* the rows not yet shipped to a syslog collector and keeps, per table, the *)
(* number of rows already shipped in the file SQL.state.                    *)
(*                                                                          *)
(* One behaviour is a sequence of process runs of main().  A run is split   *)
(* into its prologue (Start: load the configuration, create_state_file,     *)
(* ping_syslog_server) and one step per iteration of the job loop.          *)
(* Files, the database and the collector persist across runs; the logger    *)
(* and the locals of main belong to one process.                            *)
(*                                                                          *)
(* Representation.  A line of Tables.txt is the tuple of its ':' separated  *)
(* fields.  A line of SQL.state is the tuple of fields line.strip().split   *)
(* yields for it.  A Python dict is the sequence of its (key, value) items  *)
(* in insertion order.  A row is identified by its position in the table.   *)
(* Table names are identifiers (no ':' and no surrounding blanks).          *)
(***************************************************************************)
EXTENDS Integers, Sequences, FiniteSets, TLC

\* ---------------------------------------------------------------- bounds
MaxRows == 2
MaxJobs == 2
MaxRuns == 2

\* ------------------------------------------------------ the configuration
\* Login.json: the servers the operator has declared.
LoginJson == << [server_ip |-> "s1", user |-> "u1"] >>

\* The binding lines an operator may put in Tables.txt; "s2" is not declared
\* in Login.json.
BindingLines == { <<"s1", "d", "A">>, <<"s1", "d", "B">>, <<"s2", "d", "B">> }

TableNames == { l[3] : l \in BindingLines }

RECURSIVE SeqsUpTo(_, _)
SeqsUpTo(S, n) ==
    IF n = 0 THEN { <<>> }
    ELSE LET shorter == SeqsUpTo(S, n - 1)
         IN  shorter \cup { Append(s, x) : s \in shorter, x \in S }

VARIABLES
    tablesFile,     \* Tables.txt: sequence of binding lines
    db,             \* number of rows currently in each table
    fs,             \* SQL.state: [exists, lines]
    sink,           \* datagrams the syslog collector received from the current
                    \* (or, between runs, the last) process, in order
    handlers,       \* handlers attached to logger 'SyslogLogger' in this process
    pc,             \* "idle" (no process), "loop" (in main's for loop), "crashed"
                    \* (killed; the locals are kept as the process had them)
    table_configs,  \* local of main
    idx,            \* position of main's for loop in table_configs
    data,           \* local of main: result of the last fetch_data_from_db
    console,        \* what the last step printed
    lastCall,       \* the last send_to_syslog call that returned: job, rows, the
                    \* file it left, whether it repeated the call before it
    runs            \* processes started so far

vars == << tablesFile, db, fs, sink, handlers, pc, table_configs, idx, data,
           console, lastCall, runs >>

\* ------------------------------------------------------------ Python dict
DictHas(d, k) == \E i \in 1..Len(d) : d[i][1] = k

DictGet(d, k, default) ==
    IF DictHas(d, k) THEN d[CHOOSE i \in 1..Len(d) : d[i][1] = k][2] ELSE default

DictSet(d, k, v) ==
    IF DictHas(d, k)
    THEN [i \in 1..Len(d) |-> IF d[i][1] = k THEN <<k, v>> ELSE d[i]]
    ELSE Append(d, <<k, v>>)

DictKeys(d) == { d[i][1] : i \in 1..Len(d) }

\* ---------------------------------------------------------- configuration
load_server_configs == LoginJson

RECURSIVE JoinBindings(_, _)
JoinBindings(lines, server_dict) ==
    IF lines = <<>> THEN <<>>
    ELSE LET l == Head(lines)
             rest == JoinBindings(Tail(lines), server_dict)
         IN  IF DictHas(server_dict, l[1])
             THEN << [server_ip |-> l[1],
                      user      |-> DictGet(server_dict, l[1], "")["user"],
                      database  |-> l[2],
                      table     |-> l[3]] >> \o rest
             ELSE rest

load_table_configs(lines) ==
    JoinBindings(lines,
                 [i \in 1..Len(load_server_configs) |->
                     << load_server_configs[i].server_ip, load_server_configs[i] >>])

\* ------------------------------------------------------------- SQL.state
\* The file system and the collector change only through these effects, in
\* the order the code performs them.
Effect(op, lines, msg) == [op |-> op, lines |-> lines, msg |-> msg]

\* logger.info(msg): every handler attached to the logger sends one datagram.
Copies(msg, h) == [i \in 1..h |-> msg]

ApplyEffect(e, w, h) ==
    CASE e.op = "emit"  -> [w EXCEPT !.sink = @ \o Copies(e.msg, h)]
      [] e.op = "open"  -> [w EXCEPT !.fs = [exists |-> TRUE, lines |-> <<>>]]
      [] e.op = "write" -> [w EXCEPT !.fs = [exists |-> TRUE, lines |-> @.lines \o e.lines]]

RECURSIVE ApplyEffects(_, _, _)
ApplyEffects(effs, w, h) ==
    IF effs = <<>> THEN w
    ELSE ApplyEffects(Tail(effs), ApplyEffect(Head(effs), w, h), h)

\* Variant: the existence test is missing, the file is rewritten on every run.
create_state_file_always(f, cfgs) ==
    << Effect("open", <<>>, <<>>),
       Effect("write", [i \in 1..Len(cfgs) |-> << cfgs[i].table, 0 >>], <<>>) >>

\* Variant: the first job is left out of the new file.
create_state_file_skip_first(f, cfgs) ==
    IF ~f.exists
    THEN << Effect("open", <<>>, <<>>),
            Effect("write", [i \in 1..(Len(cfgs) - 1) |-> << cfgs[i + 1].table, 0 >>], <<>>) >>
    ELSE <<>>

create_state_file(f, cfgs) ==
    IF ~f.exists
    THEN << Effect("open", <<>>, <<>>),
            Effect("write", [i \in 1..Len(cfgs) |-> << cfgs[i].table, 0 >>], <<>>) >>
    ELSE <<>>

RECURSIVE ParseLines(_, _)
ParseLines(lines, state) ==
    IF lines = <<>> THEN state
    ELSE LET parts == Head(lines)
         IN  ParseLines(Tail(lines),
                        IF Len(parts) = 2 THEN DictSet(state, parts[1], parts[2])
                        ELSE state)

read_state(f) == IF f.exists THEN ParseLines(f.lines, <<>>) ELSE <<>>

\* Variant: the file is rewritten without reading the entries it holds.
update_state_only_entry(f, table_name, last_rows_read) ==
    << Effect("open", <<>>, <<>>),
       Effect("write", << << table_name, last_rows_read >> >>, <<>>) >>

update_state(f, table_name, last_rows_read) ==
    LET state == DictSet(read_state(f), table_name, last_rows_read)
    IN  << Effect("open", <<>>, <<>>), Effect("write", state, <<>>) >>

\* ------------------------------------------------------------- forwarding
SummaryMessage(config, row_count) ==
    << config.server_ip, config.database, config.table, "Rows Read", row_count >>

RowMessage(config, row) ==
    << config.server_ip, config.database, config.table, "row", row >>

\* fetch_data_from_db when the query succeeds: the whole table, in order.
fetch_data_from_db(config, tables) == [i \in 1..tables[config.table] |-> i]

\* Variant: the number of fetched rows is committed whether or not it grew.
send_to_syslog_commit_always(rows, config, f) ==
    LET state == read_state(f)
        last_rows_read == DictGet(state, config.table, 0)
        new_data == SubSeq(rows, last_rows_read + 1, Len(rows))
        row_count == Len(new_data)
    IN  (IF Len(rows) > last_rows_read
         THEN << Effect("emit", <<>>, SummaryMessage(config, row_count)) >>
              \o [i \in 1..row_count |->
                     Effect("emit", <<>>, RowMessage(config, new_data[i]))]
         ELSE <<>>)
        \o update_state(f, config.table, Len(rows))

\* Variant: ">=" in place of ">".
send_to_syslog_ge(rows, config, f) ==
    LET state == read_state(f)
        last_rows_read == DictGet(state, config.table, 0)
    IN  IF Len(rows) >= last_rows_read
        THEN LET new_data == SubSeq(rows, last_rows_read + 1, Len(rows))
                 row_count == Len(new_data)
             IN  << Effect("emit", <<>>, SummaryMessage(config, row_count)) >>
                 \o [i \in 1..row_count |->
                        Effect("emit", <<>>, RowMessage(config, new_data[i]))]
                 \o update_state(f, config.table, last_rows_read + row_count)
        ELSE <<>>

\* Variant: the offset is committed before the records are sent.
send_to_syslog_commit_first(rows, config, f) ==
    LET state == read_state(f)
        last_rows_read == DictGet(state, config.table, 0)
    IN  IF Len(rows) > last_rows_read
        THEN LET new_data == SubSeq(rows, last_rows_read + 1, Len(rows))
                 row_count == Len(new_data)
             IN  update_state(f, config.table, last_rows_read + row_count)
                 \o << Effect("emit", <<>>, SummaryMessage(config, row_count)) >>
                 \o [i \in 1..row_count |->
                        Effect("emit", <<>>, RowMessage(config, new_data[i]))]
        ELSE <<>>

\* send_to_syslog from read_state on (lines 128-147).
send_to_syslog(rows, config, f) ==
    LET state == read_state(f)
        last_rows_read == DictGet(state, config.table, 0)
    IN  IF Len(rows) > last_rows_read
        THEN LET new_data == SubSeq(rows, last_rows_read + 1, Len(rows))
                 row_count == Len(new_data)
             IN  << Effect("emit", <<>>, SummaryMessage(config, row_count)) >>
                 \o [i \in 1..row_count |->
                        Effect("emit", <<>>, RowMessage(config, new_data[i]))]
                 \o update_state(f, config.table, last_rows_read + row_count)
        ELSE <<>>

\* What send_to_syslog prints last.
SendVerdict(rows, config, f) ==
    IF Len(rows) > DictGet(read_state(f), config.table, 0) THEN "logged" ELSE "nonew"

\* ------------------------------------------------------------------- Init
NoCall == <<>>

Init ==
    /\ tablesFile \in SeqsUpTo(BindingLines, MaxJobs)
    /\ db = [t \in TableNames |-> 0]
    /\ fs = [exists |-> FALSE, lines |-> <<>>]
    /\ sink = <<>>
    /\ handlers = 0
    /\ pc = "idle"
    /\ table_configs = <<>>
    /\ idx = 0
    /\ data = <<>>
    /\ console = "none"
    /\ lastCall = NoCall
    /\ runs = 0

\* ------------------------------------------------------------ environment
\* Other clients of the database insert or delete rows between runs.
SetRows ==
    /\ pc = "idle"
    /\ \E t \in TableNames, n \in 0..MaxRows :
          /\ n # db[t]
          /\ db' = [db EXCEPT ![t] = n]
    /\ UNCHANGED << tablesFile, fs, sink, handlers, pc, table_configs, idx, data,
                    console, lastCall, runs >>

\* The operator adds a binding line to Tables.txt between runs.
AddBinding ==
    /\ pc = "idle"
    /\ Len(tablesFile) < MaxJobs
    /\ \E l \in BindingLines : tablesFile' = Append(tablesFile, l)
    /\ UNCHANGED << db, fs, sink, handlers, pc, table_configs, idx, data,
                    console, lastCall, runs >>

\* ------------------------------------------------------------------- main
\* A new process: main up to and including the reachability probe.
Start ==
    /\ pc \in {"idle", "crashed"}
    /\ runs < MaxRuns
    /\ runs' = runs + 1
    /\ handlers' = 0
    /\ \E reachable \in BOOLEAN :
          LET cfgs == load_table_configs(tablesFile)
              w == ApplyEffects(create_state_file(fs, cfgs),
                                [fs |-> fs, sink |-> <<>>], 0)
          IN  /\ fs' = w.fs
              /\ sink' = w.sink
              /\ data' = <<>>
              /\ IF reachable /\ cfgs # <<>>
                 THEN /\ table_configs' = cfgs
                      /\ idx' = 1
                      /\ pc' = "loop"
                      /\ console' = IF fs.exists THEN "none" ELSE "created"
                 ELSE /\ table_configs' = <<>>
                      /\ idx' = 0
                      /\ pc' = "idle"
                      /\ console' = IF reachable
                                    THEN (IF fs.exists THEN "none" ELSE "created")
                                    ELSE "unreachable"
    /\ UNCHANGED << tablesFile, db, lastCall >>

\* The process ends: its logger and the locals of main are gone.
Exit ==
    /\ pc' = "idle"
    /\ table_configs' = <<>>
    /\ idx' = 0
    /\ data' = <<>>
    /\ handlers' = 0

\* The for loop moves to the next job, or main returns after the last one.
\* fetched is the value of data and attached the number of handlers then.
Advance(fetched, attached) ==
    IF idx = Len(table_configs)
    THEN Exit
    ELSE /\ pc' = "loop"
         /\ table_configs' = table_configs
         /\ idx' = idx + 1
         /\ data' = fetched
         /\ handlers' = attached

\* fetch_data_from_db catches pyodbc.Error and returns [].
JobFetchError ==
    /\ pc = "loop"
    /\ console' = "fetch_error"
    /\ Advance(<<>>, handlers)
    /\ UNCHANGED << tablesFile, db, fs, sink, lastCall, runs >>

\* The table is empty: "if data" is false.
JobNoData ==
    /\ pc = "loop"
    /\ fetch_data_from_db(table_configs[idx], db) = <<>>
    /\ console' = "none"
    /\ Advance(<<>>, handlers)
    /\ UNCHANGED << tablesFile, db, fs, sink, lastCall, runs >>

\* The call send_to_syslog(rows, config) repeats the last call that returned:
\* same job, same rows, and SQL.state as that call left it.
IsRepeat(config, rows) ==
    /\ lastCall # NoCall
    /\ lastCall[1] = config
    /\ lastCall[2] = rows
    /\ lastCall[3] = fs

\* The rows are fetched and send_to_syslog returns.
JobForward ==
    /\ pc = "loop"
    /\ LET config == table_configs[idx]
           rows == fetch_data_from_db(config, db)
           w == ApplyEffects(send_to_syslog(rows, config, fs),
                             [fs |-> fs, sink |-> sink], handlers + 1)
       IN  /\ rows # <<>>
           /\ fs' = w.fs
           /\ sink' = w.sink
           /\ console' = SendVerdict(rows, config, fs)
           /\ lastCall' = << config, rows, w.fs, IsRepeat(config, rows) >>
           /\ Advance(rows, handlers + 1)
    /\ UNCHANGED << tablesFile, db, runs >>

\* The rows are fetched and send_to_syslog raises before read_state
\* (SysLogHandler rejects the keyword ssl or cannot open its socket, or the
\* local host name does not resolve); main catches nothing, so the process
\* ends with a traceback.
JobRaise ==
    /\ pc = "loop"
    /\ fetch_data_from_db(table_configs[idx], db) # <<>>
    /\ Exit
    /\ console' = "traceback"
    /\ UNCHANGED << tablesFile, db, fs, sink, lastCall, runs >>

Next ==
    \/ SetRows
    \/ AddBinding
    \/ Start
    \/ JobFetchError
    \/ JobNoData
    \/ JobForward
    \/ JobRaise

Spec == Init /\ [][Next]_vars

\* ------------------------------------------------- append-only specification
\* The job list is fixed and names each table once; tables only grow.
DistinctTables(cfgs) ==
    \A i, j \in 1..Len(cfgs) : cfgs[i].table = cfgs[j].table => i = j

AppendRows ==
    /\ pc = "idle"
    /\ \E t \in TableNames :
          /\ db[t] < MaxRows
          /\ db' = [db EXCEPT ![t] = @ + 1]
    /\ UNCHANGED << tablesFile, fs, sink, handlers, pc, table_configs, idx, data,
                    console, lastCall, runs >>

InitAppend == Init /\ DistinctTables(load_table_configs(tablesFile))

NextAppend ==
    \/ AppendRows
    \/ Start
    \/ JobFetchError
    \/ JobNoData
    \/ JobForward

SpecAppend == InitAppend /\ [][NextAppend]_vars

\* ------------------------------------------------------ crash specification
\* The process is killed inside create_state_file, between open(..., "w") and
\* the flush of the buffered lines at close.
CrashInStart ==
    /\ pc \in {"idle", "crashed"}
    /\ runs < MaxRuns
    /\ runs' = runs + 1
    /\ handlers' = 0
    /\ LET cfgs == load_table_configs(tablesFile)
           effs == create_state_file(fs, cfgs)
       IN  /\ table_configs' = cfgs
           /\ idx' = 0
           /\ \E k \in 1..(Len(effs) - 1) :
                 LET w == ApplyEffects(SubSeq(effs, 1, k),
                                       [fs |-> fs, sink |-> <<>>], 0)
                 IN  /\ fs' = w.fs
                     /\ sink' = w.sink
    /\ data' = <<>>
    /\ pc' = "crashed"
    /\ console' = "killed"
    /\ UNCHANGED << tablesFile, db, lastCall >>

\* The process is killed inside send_to_syslog after k of its effects.
CrashInSend ==
    /\ pc = "loop"
    /\ LET config == table_configs[idx]
           rows == fetch_data_from_db(config, db)
           effs == send_to_syslog(rows, config, fs)
       IN  /\ rows # <<>>
           /\ data' = rows
           /\ \E k \in 0..Len(effs) :
                 LET w == ApplyEffects(SubSeq(effs, 1, k),
                                       [fs |-> fs, sink |-> sink], handlers + 1)
                 IN  /\ fs' = w.fs
                     /\ sink' = w.sink
    /\ handlers' = handlers + 1
    /\ pc' = "crashed"
    /\ console' = "killed"
    /\ UNCHANGED << tablesFile, db, table_configs, idx, lastCall, runs >>

NextCrash ==
    \/ SetRows
    \/ AddBinding
    \/ Start
    \/ JobFetchError
    \/ JobNoData
    \/ JobForward
    \/ JobRaise
    \/ CrashInStart
    \/ CrashInSend

SpecCrash == Init /\ [][NextCrash]_vars

\* ----------------------------------------------------------------- claims
\* The offset stored for a table: its entry in SQL.state, 0 when it has none.
Offset(f, t) == DictGet(read_state(f), t, 0)

Range(q) == { q[i] : i \in 1..Len(q) }

\* The datagrams the collector received during the step (none in a step that
\* starts a process).
Appended == IF runs' = runs THEN SubSeq(sink', Len(sink) + 1, Len(sink')) ELSE <<>>

\* A step in which send_to_syslog was called and returned.
IsForwardStep ==
    /\ pc = "loop"
    /\ console' \in {"logged", "nonew"}

\* A step that is the prologue of main (a process start that was not killed).
IsStartStep == runs' = runs + 1 /\ console' # "killed"

\* C1: a send_to_syslog call with L rows for a table whose stored offset is o
\* emits nothing and keeps the offset when L <= o; when L > o the collector
\* receives exactly one summary carrying L - o, then exactly the L - o detail
\* records of rows o+1..L in fetch order, and the stored offset becomes L.
C1_ForwardNewContract ==
    [][IsForwardStep =>
         LET config == table_configs[idx]
             o == Offset(fs, config.table)
             rows == lastCall'[2]
             L == Len(rows)
         IN  IF L <= o
             THEN /\ sink' = sink
                  /\ Offset(fs', config.table) = o
             ELSE /\ sink' = sink \o << SummaryMessage(config, L - o) >>
                                  \o [i \in 1..(L - o) |-> RowMessage(config, rows[o + i])]
                  /\ Offset(fs', config.table) = L]_vars

\* C2: the offset stored for a table never decreases, whatever the runs, job
\* lists, fetched lengths, fetch failures and unreachable-sink runs.
C2_OffsetMonotonic ==
    [][\A t \in TableNames : Offset(fs', t) >= Offset(fs, t)]_vars

\* A table shrank below its stored offset and was forwarded again.
C2_Witness ==
    /\ console = "nonew"
    /\ lastCall # NoCall
    /\ Len(lastCall[2]) < Offset(fs, lastCall[1].table)

\* C3: a send_to_syslog call for the same job with the same rows as the call
\* before it, the state file being as that call left it, emits nothing and
\* leaves the state file as it is.
C3_RerunIdempotent ==
    [][(/\ IsForwardStep
        /\ lastCall # NoCall
        /\ lastCall'[1] = lastCall[1]
        /\ lastCall'[2] = lastCall[2]
        /\ lastCall[3] = fs)
       => (sink' = sink /\ fs' = fs)]_vars

\* One run forwarded the same job twice with the same rows (Tables.txt names
\* it twice): the first call logged them, the second found nothing new.
C3_Witness ==
    /\ runs = 1
    /\ pc = "idle"
    /\ console = "nonew"
    /\ lastCall # NoCall
    /\ lastCall[4]
    /\ sink # <<>>

\* C4 as stated: a run whose reachability probe fails processes no job and
\* leaves the state file (existence and contents) exactly as it found it.
C4_UnreachableNoMutation ==
    [][(IsStartStep /\ console' = "unreachable")
       => (pc' = "idle" /\ sink' = <<>> /\ fs' = fs)]_vars

\* C4 amended: a run whose probe fails processes no job and changes no
\* offset; an existing state file is left as it is, and a missing one is
\* created with one "table:0" line per job.
C4_UnreachableAmended ==
    [][(IsStartStep /\ console' = "unreachable")
       => /\ pc' = "idle"
          /\ sink' = <<>>
          /\ \A t \in TableNames : Offset(fs', t) = Offset(fs, t)
          /\ IF fs.exists
             THEN fs' = fs
             ELSE LET cfgs == load_table_configs(tablesFile)
                  IN  fs' = [exists |-> TRUE,
                             lines  |-> [i \in 1..Len(cfgs) |-> << cfgs[i].table, 0 >>]]]_vars

\* A run with an unreachable sink found a state file holding a non-zero offset.
C4_Witness ==
    /\ console = "unreachable"
    /\ runs = 2
    /\ \E t \in TableNames : Offset(fs, t) > 0

\* C5 as stated: after create_state_file every job's table has an entry;
\* tables without one get 0 and existing entries keep their value.
C5_EnsureInitialized ==
    [][IsStartStep =>
         \A i \in 1..Len(load_table_configs(tablesFile)) :
            LET t == load_table_configs(tablesFile)[i].table
                before == read_state(fs)
                after == read_state(fs')
            IN  /\ DictHas(after, t)
                /\ DictGet(after, t, -1) = DictGet(before, t, 0)]_vars

\* C5 amended: when no state file exists, create_state_file creates one whose
\* entries are exactly the jobs' tables, all at 0; when one exists it is left
\* as it is (a job table without an entry gets none and reads as 0).  A
\* second call does nothing.
C5_EnsureInitializedAmended ==
    [][IsStartStep =>
         /\ IF fs.exists
            THEN fs' = fs
            ELSE /\ fs'.exists
                 /\ DictKeys(read_state(fs')) =
                       { load_table_configs(tablesFile)[i].table :
                            i \in 1..Len(load_table_configs(tablesFile)) }
                 /\ \A t \in TableNames : Offset(fs', t) = 0
         /\ create_state_file(fs', load_table_configs(tablesFile)) = <<>>]_vars

\* A run started with a state file that has no entry for one of its jobs.
C5_Witness ==
    /\ pc = "loop"
    /\ idx = 1
    /\ runs = 2
    /\ \E i \in 1..Len(table_configs) :
          ~DictHas(read_state(fs), table_configs[i].table)

\* C6: whatever happens to a job that is not the last one (fetch failure,
\* empty fetch, forwarding failure), the loop goes on to the next job, and a
\* job that failed keeps its offset.
C6_FailureDoesNotAbort ==
    [][(pc = "loop" /\ idx < Len(table_configs))
       => /\ pc' = "loop"
          /\ idx' = idx + 1
          /\ (console' \in {"fetch_error", "none", "traceback"} => fs' = fs)]_vars

MapEq(d1, d2) ==
    /\ DictKeys(d1) = DictKeys(d2)
    /\ \A k \in DictKeys(d1) : DictGet(d1, k, -1) = DictGet(d2, k, -1)

\* C7: the commit made by send_to_syslog sets the entry of its table to the
\* new offset, keeps every other entry, and adds or removes no other entry.
C7_CommitFrame ==
    [][(IsForwardStep /\ console' = "logged")
       => LET t == table_configs[idx].table
          IN  MapEq(read_state(fs'), DictSet(read_state(fs), t, Len(lastCall'[2])))]_vars

\* A commit was made while another table had a non-zero offset.
C7_Witness ==
    /\ console = "logged"
    /\ lastCall # NoCall
    /\ \E u \in TableNames \ {lastCall[1].table} : Offset(fs, u) > 0

\* C8: when the process is killed during a job, the mapping the next run
\* reads is the complete mapping from before the commit or the complete
\* mapping after it.
C8_CommitAtomic ==
    [][(pc = "loop" /\ pc' = "crashed")
       => LET t == table_configs[idx].table
          IN  \/ MapEq(read_state(fs'), read_state(fs))
              \/ MapEq(read_state(fs'), DictSet(read_state(fs), t, Len(data')))]_vars

\* C9: in a job step (killed or not) the state file changes only after the
\* summary and every detail record of rows o+1..L reached the collector, and
\* an offset that moved equals L.
C9_CommitAfterEmit ==
    [][pc = "loop" =>
         LET config == table_configs[idx]
             o == Offset(fs, config.table)
             rows == IF pc' = "crashed" THEN data'
                     ELSE IF console' \in {"logged", "nonew"} THEN lastCall'[2]
                     ELSE <<>>
             L == Len(rows)
         IN  /\ fs' # fs =>
                  /\ SummaryMessage(config, L - o) \in Range(Appended)
                  /\ \A r \in (o + 1)..L : RowMessage(config, rows[r]) \in Range(Appended)
             /\ Offset(fs', config.table) # o =>
                  Offset(fs', config.table) \in {0, L}
             /\ \A r \in 1..Len(Appended) :
                  Appended[r] \in { SummaryMessage(config, L - o) }
                                    \cup { RowMessage(config, rows[q]) : q \in (o + 1)..L }]_vars

\* The process was killed after the last detail record and before the commit.
C9_Witness ==
    /\ pc = "crashed"
    /\ idx \in 1..Len(table_configs)
    /\ data # <<>>
    /\ sink # <<>>
    /\ sink[Len(sink)] = RowMessage(table_configs[idx], data[Len(data)])
    /\ fs.lines # <<>>
    /\ Offset(fs, table_configs[idx].table) < Len(data)

\* The rows of table t the collector received detail records for, in order.
RECURSIVE DetailRows(_, _)
DetailRows(q, t) ==
    IF q = <<>> THEN <<>>
    ELSE IF Head(q)[3] = t /\ Head(q)[4] = "row"
         THEN << Head(q)[5] >> \o DetailRows(Tail(q), t)
         ELSE DetailRows(Tail(q), t)

\* C10: with distinct table names, append-only tables and no crash, every
\* step sends, for each table, exactly the detail records of the rows from
\* its stored offset before the step to its stored offset after it, each once
\* and in order; so over any sequence of runs the detail records sent for a
\* table are its rows initial offset + 1 .. offset, and the offset is the
\* initial offset plus the number of rows sent.
C10_NoLossNoDuplication ==
    [][\A t \in TableNames :
          DetailRows(Appended, t) =
             [i \in 1..(Offset(fs', t) - Offset(fs, t)) |-> Offset(fs, t) + i]]_vars

====
